---- MODULE Spec2Model ----
(***************************************************************************)
(* Fixed-window rate limiter with block: RateLimiter.Allow                 *)
(* (ratelimiter/limiter.go) on top of MemoryStorage.CheckAndIncrement      *)
(* (storage/memory.go).                                                    *)
(*                                                                         *)
(* Time is counted in ticks of 1/TicksPerSecond second.  The zero          *)
(* time.Time{} is the tick 0; the clock starts at 1, so a time read from   *)
(* the clock is never zero.                                                *)
(*                                                                         *)
(* Pointers.  The store maps a key to a *ClientData.  Each such object is  *)
(* allocated by exactly one call and, when CheckAndIncrement returns the   *)
(* stored pointer itself (lines 125, 134, 143 of the storage file), handed *)
(* to exactly that one caller.  The model keeps the object inline in       *)
(* clients[k] and records in call[p].alias that p's data points at it.     *)
(* When the map entry is replaced, the old object can no longer be written *)
(* by anybody, so the holder's view is frozen into call[p].data.           *)
(* A read through an aliased pointer happens outside the store's lock and  *)
(* sees whatever the object holds at that moment.                          *)
(***************************************************************************)
EXTENDS Integers, Sequences, FiniteSets, TLC

\* ---------------------------------------------------------------- bounds
NProcs == 2
MaxCalls == 3
MaxSeqCalls == 5
MaxKeyCalls == 3
MaxGetCalls == 2
MaxGets == 1
MaxIncs == 3
MaxOps == 2
MaxOpCalls == 5
MaxMwCalls == 3
MaxLiveCalls == 3
MaxLiveOps == 1
MaxTime == 2
MaxSeqTime == 4
MaxK == 2
MaxWindow == 2
MaxBlock == 2
TicksPerSecond == 2

Procs == 1..NProcs
Keys == {"a", "b"}
HotKeys == {"a"}

\* ------------------------------------------------------------- constants
ZeroTime == 0
errorMessage == "Rate limit exceeded"

VARIABLES
    maxRequests,     \* rl.maxRequests
    windowDuration,  \* rl.windowDuration, in ticks
    blockDuration,   \* rl.blockDuration, in ticks
    clock,           \* what time.Now() returns
    clients,         \* s.clients: key -> ClientData or NoData
    mu,              \* s.mu: 0 when free, else the goroutine holding Lock()
    call,            \* per goroutine: the locals of its Allow call
    pc,              \* per goroutine: its position in Allow
    results,         \* the Results returned so far, in order of return
    get,             \* the locals and the position of a GetClientData call
    snaps,           \* what GetClientData has returned so far
    logOnExceedOnly, \* rl.logOnExceedOnly
    logs,            \* the records handed to rl.logger, in order
    includeJSON,     \* m.includeJSON of the middleware
    mw,              \* per goroutine: the locals and the position of its
                     \* middleware handler
    responses,       \* the HTTP responses completed so far, in order
    nops,            \* how many store operations were called from outside Allow
    inc,             \* per goroutine: its position in IncrementRequestCount
    rets,            \* what IncrementRequestCount has returned so far
    old              \* the store and the Results of a limiter whose Allow is
                     \* the get-then-increment one, given the same calls

cfgVars == <<maxRequests, windowDuration, blockDuration, logOnExceedOnly,
             includeJSON>>
rdVars == <<get, snaps>>
mwVars == <<mw, responses>>
opVars == <<nops, inc, rets>>
vars == <<maxRequests, windowDuration, blockDuration, clock, clients, mu,
          call, pc, results, get, snaps, logOnExceedOnly, logs, includeJSON,
          mw, responses, nops, inc, rets, old>>

NoData == [exists |-> FALSE]

\* storage.ClientData
ClientData(count, ws, bu) ==
    [exists |-> TRUE, RequestCount |-> count, WindowStart |-> ws, BlockedUntil |-> bu]

\* time.Time.IsZero
IsZero(t) == t = ZeroTime

\* time.Time.Before / After
Before(t, u) == t < u
After(t, u) == t > u

\* int(d.Seconds()): float seconds truncated toward zero
Seconds(d) ==
    IF d >= 0 THEN d \div TicksPerSecond ELSE -((-d) \div TicksPerSecond)

IdleCall ==
    [clientID |-> "a", now |-> ZeroTime, data |-> NoData, alias |-> FALSE,
     allowed |-> FALSE, branch |-> "none", denied |-> FALSE,
     retryAfterSec |-> 0, requestsMade |-> 0]

\* GetClientData not running.  seen is the set of the values that the object
\* data points at has held between whole store operations since the lookup.
IdleGet ==
    [pc |-> "idle", clientID |-> "a", alias |-> FALSE, data |-> NoData,
     RequestCount |-> 0, WindowStart |-> ZeroTime, seen |-> {}]

\* no Result yet
NoResult ==
    [clientID |-> "a", now |-> ZeroTime, branch |-> "none", Allowed |-> FALSE,
     RequestsMade |-> 0, Limit |-> 0, RetryAfter |-> ZeroTime,
     RetryAfterSec |-> 0, ErrorMessage |-> ""]

\* the handler of the middleware not running
IdleMw == [pc |-> "idle", kind |-> "Handler", result |-> NoResult]

Kinds == {"Handler", "HandlerFunc"}
StatusOK == 200
StatusTooManyRequests == 429

\* IncrementRequestCount not running; data is what the lookup of line 57 found
IdleInc == [pc |-> "idle", clientID |-> "a", data |-> NoData]

\* ratelimiter.New and NewRateLimiterMiddleware with the options
\* WithMaxRequests, WithWindowDuration, WithBlockDuration,
\* WithLogOnExceedOnly(loe) and WithIncludeJSON(json), on an empty store
New(loe, json) ==
    /\ logOnExceedOnly = loe
    /\ includeJSON = json
    /\ logs = << >>
    /\ mw = [p \in Procs |-> IdleMw]
    /\ responses = << >>
    /\ nops = 0
    /\ inc = [p \in Procs |-> IdleInc]
    /\ rets = << >>
    /\ old = [clients |-> [k \in Keys |-> NoData], results |-> << >>]
    /\ maxRequests \in 0..MaxK
    /\ windowDuration \in 1..MaxWindow
    /\ blockDuration \in 0..MaxBlock
    /\ clock = 1
    /\ clients = [k \in Keys |-> NoData]
    /\ mu = 0
    /\ call = [p \in Procs |-> IdleCall]
    /\ pc = [p \in Procs |-> "idle"]
    /\ results = << >>
    /\ get = IdleGet
    /\ snaps = << >>

\* the defaults of the two options: logOnExceedOnly: true (limiter.go 92),
\* includeJSON: true (middleware 59)
Init == New(TRUE, TRUE)

\* time passes, up to the horizon
Tick(horizon) ==
    /\ clock < horizon
    /\ clock' = clock + 1
    /\ UNCHANGED <<cfgVars, old, logs, mwVars, opVars, rdVars, clients, mu, call, pc, results>>

InFlight == {p \in Procs : pc[p] # "idle"}

\* the value a goroutine gets when it reads through its data pointer
Deref(p) ==
    IF call[p].alias THEN clients[call[p].clientID] ELSE call[p].data

\* s.clients[k] is about to point at a new object: whoever holds a pointer to
\* the old one keeps the old object as it is now
Detach(k, c) ==
    [q \in Procs |->
        IF c[q].alias /\ c[q].clientID = k
        THEN [c[q] EXCEPT !.alias = FALSE, !.data = clients[k]]
        ELSE c[q]]

\* the same for the pointer GetClientData has read from the map
DetachGet(k) ==
    IF get.alias /\ get.clientID = k
    THEN [get EXCEPT !.alias = FALSE, !.data = clients[k]]
    ELSE get

\* a whole store operation has left the object stored for k with the value d
Observed(k, d) ==
    IF get.alias /\ get.clientID = k
    THEN [get EXCEPT !.seen = @ \cup {d}]
    ELSE get

\* ------------------------------------------------------ CheckAndIncrement
\* the lookup of line 108 made with one and the same key for every client
LookupFirst(k) == clients["a"]

\* line 108: data, exists := s.clients[clientID]
Lookup(k) == clients[k]

\* line 110 with the arguments of Before exchanged
IsBlockedSwapped(d, now) ==
    d.exists /\ ~IsZero(d.BlockedUntil) /\ Before(d.BlockedUntil, now)

IsBlocked(d, now) ==
    d.exists /\ ~IsZero(d.BlockedUntil) /\ Before(now, d.BlockedUntil)

BlockExpired(d, now) ==
    d.exists /\ ~IsZero(d.BlockedUntil) /\ After(now, d.BlockedUntil)

\* line 128 with > for >=
WindowElapsedStrict(d, now) ==
    d.exists /\ now - d.WindowStart > windowDuration

WindowElapsed(d, now) ==
    d.exists /\ now - d.WindowStart >= windowDuration

\* the window check of line 128 made before the block checks of 110 and 119
BranchWindowFirst(d, now) ==
    IF WindowElapsed(d, now) THEN "windowElapsed"
    ELSE IF IsBlocked(d, now) THEN "blocked"
    ELSE IF BlockExpired(d, now) THEN "blockExpired"
    ELSE IF ~d.exists THEN "fresh"
    ELSE "increment"

Branch(d, now) ==
    IF IsBlocked(d, now) THEN "blocked"
    ELSE IF BlockExpired(d, now) THEN "blockExpired"
    ELSE IF WindowElapsed(d, now) THEN "windowElapsed"
    ELSE IF ~d.exists THEN "fresh"
    ELSE "increment"

\* a new window that keeps a block, ending at its start
NewWindowBlocked(now) == ClientData(1, now, now)

\* a new window that does not count the request that starts it
NewWindowZero(now) == ClientData(0, now, ZeroTime)

\* &ClientData{RequestCount: 1, WindowStart: now, BlockedUntil: time.Time{}}
NewWindow(now) == ClientData(1, now, ZeroTime)

\* the increment of line 146 left out
NotIncremented(d) == d

\* data.RequestCount++
Incremented(d) == [d EXCEPT !.RequestCount = @ + 1]

\* line 148 with >= for >
OverLimitInclusive(count) == count >= maxRequests

\* data.RequestCount > maxRequests
OverLimit(count) == count > maxRequests

\* line 149 with the window's duration for the block's
BlockEndWindow(now) == now + windowDuration

\* the block of line 149 written as the zero time
BlockEndZero(now) == ZeroTime

\* now.Add(blockDuration)
BlockEnd(now) == now + blockDuration

\* rl.Allow, line 112: now := time.Now(); at most budget calls are made.
\* Goroutines that are not inside Allow are all alike: the next call is made
\* by the first of them.
AllowBegin(p, k, budget) ==
    /\ pc[p] = "idle"
    /\ \A q \in Procs : q < p => pc[q] # "idle"
    /\ Len(results) + Cardinality(InFlight) < budget
    /\ call' = [call EXCEPT ![p] = [IdleCall EXCEPT !.clientID = k, !.now = clock]]
    /\ pc' = [pc EXCEPT ![p] = "cai"]
    /\ UNCHANGED <<cfgVars, old, logs, mwVars, opVars, rdVars, clock, clients, mu, results>>

\* CheckAndIncrement from Lock() to the return, except that the branch that
\* takes the count over the limit stops after data.RequestCount++ (line 146),
\* still holding the lock
CheckAndIncrement(p) ==
    /\ pc[p] = "cai"
    /\ mu = 0
    /\ LET k == call[p].clientID
           now == call[p].now
           d == Lookup(k)
           b == Branch(d, now)
       IN  CASE b = "blocked" ->
                  /\ call' = [call EXCEPT ![p].data = d, ![p].alias = FALSE,
                                          ![p].allowed = FALSE, ![p].branch = b]
                  /\ pc' = [pc EXCEPT ![p] = "check"]
                  /\ UNCHANGED <<clients, mu, get>>
             [] b \in {"blockExpired", "windowElapsed", "fresh"} ->
                  /\ clients' = [clients EXCEPT ![k] = NewWindow(now)]
                  /\ call' = [Detach(k, call) EXCEPT ![p].alias = TRUE,
                                          ![p].allowed = TRUE, ![p].branch = b]
                  /\ get' = DetachGet(k)
                  /\ pc' = [pc EXCEPT ![p] = "check"]
                  /\ UNCHANGED mu
             [] b = "increment" ->
                  /\ clients' = [clients EXCEPT ![k] = Incremented(d)]
                  /\ IF OverLimit(Incremented(d).RequestCount)
                     THEN /\ mu' = p
                          /\ call' = [call EXCEPT ![p].branch = b]
                          /\ pc' = [pc EXCEPT ![p] = "block"]
                          /\ UNCHANGED get
                     ELSE /\ call' = [call EXCEPT ![p].data = Incremented(d),
                                          ![p].alias = FALSE,
                                          ![p].allowed = TRUE, ![p].branch = b]
                          /\ get' = Observed(k, Incremented(d))
                          /\ pc' = [pc EXCEPT ![p] = "check"]
                          /\ UNCHANGED mu
    /\ UNCHANGED <<cfgVars, old, logs, mwVars, opVars, snaps, clock, results>>

\* lines 149-157 without the deferred Unlock() of line 106
CheckAndIncrementBlockNoUnlock(p) ==
    /\ pc[p] = "block"
    /\ mu = p
    /\ LET k == call[p].clientID
           d == [clients[k] EXCEPT !.BlockedUntil = BlockEnd(call[p].now)]
       IN  /\ clients' = [clients EXCEPT ![k] = d]
           /\ call' = [call EXCEPT ![p].data = d, ![p].alias = FALSE,
                                   ![p].allowed = TRUE]
           /\ get' = Observed(k, d)
    /\ pc' = [pc EXCEPT ![p] = "check"]
    /\ UNCHANGED <<cfgVars, old, logs, mwVars, opVars, snaps, clock, results, mu>>

\* lines 149-157: data.BlockedUntil = now.Add(blockDuration), copy, Unlock()
CheckAndIncrementBlock(p) ==
    /\ pc[p] = "block"
    /\ mu = p
    /\ LET k == call[p].clientID
           d == [clients[k] EXCEPT !.BlockedUntil = BlockEnd(call[p].now)]
       IN  /\ clients' = [clients EXCEPT ![k] = d]
           /\ call' = [call EXCEPT ![p].data = d, ![p].alias = FALSE,
                                   ![p].allowed = TRUE]
           /\ get' = Observed(k, d)
    /\ mu' = 0
    /\ pc' = [pc EXCEPT ![p] = "check"]
    /\ UNCHANGED <<cfgVars, old, logs, mwVars, opVars, snaps, clock, results>>

\* ------------------------------------------------------------------ Allow
\* limiter.go 141 off by one
LimitExceededOffByOne(count) == count > maxRequests + 1

\* limiter.go 141: data.RequestCount > rl.maxRequests
LimitExceeded(count) == count > maxRequests

\* limiter.go 117-120: int(time.Until(data.BlockedUntil).Seconds()), at least 1
RetryAfterBlocked(blockedUntil) ==
    LET s == Seconds(blockedUntil - clock) IN IF s < 1 THEN 1 ELSE s

\* limiter.go 142: int(rl.blockDuration.Seconds())
RetryAfterExceeded == Seconds(blockDuration)

\* limiter.go 141 left out: Allow takes the flag of CheckAndIncrement as the
\* decision
CheckedByFlag(p) ==
    IF ~call[p].allowed
    THEN [call[p] EXCEPT !.denied = TRUE,
                         !.retryAfterSec = RetryAfterBlocked(Deref(p).BlockedUntil)]
    ELSE [call[p] EXCEPT !.denied = FALSE]

\* limiter.go 116-120 and 141-142: which of the three Results is built
Checked(p) ==
    IF ~call[p].allowed
    THEN [call[p] EXCEPT !.denied = TRUE,
                         !.retryAfterSec = RetryAfterBlocked(Deref(p).BlockedUntil)]
    ELSE IF LimitExceeded(Deref(p).RequestCount)
    THEN [call[p] EXCEPT !.denied = TRUE, !.retryAfterSec = RetryAfterExceeded]
    ELSE [call[p] EXCEPT !.denied = FALSE]

\* the denied Result built without its ErrorMessage
ResultOfNoMessage(c, d) ==
    [clientID |-> c.clientID, now |-> c.now, branch |-> c.branch,
     Allowed |-> ~c.denied, RequestsMade |-> c.requestsMade,
     Limit |-> maxRequests,
     RetryAfter |-> IF c.denied THEN d.BlockedUntil ELSE ZeroTime,
     RetryAfterSec |-> IF c.denied THEN c.retryAfterSec ELSE 0,
     ErrorMessage |-> ""]

\* the Result of limiter.go 131-138, 153-160 or 163-167 built from the locals
\* c and the data d, with the key and the time of the call and the branch
\* CheckAndIncrement took for it
ResultOf(c, d) ==
    IF c.denied
    THEN [clientID |-> c.clientID, now |-> c.now, branch |-> c.branch,
          Allowed |-> FALSE, RequestsMade |-> c.requestsMade,
          Limit |-> maxRequests, RetryAfter |-> d.BlockedUntil,
          RetryAfterSec |-> c.retryAfterSec, ErrorMessage |-> errorMessage]
    ELSE [clientID |-> c.clientID, now |-> c.now, branch |-> c.branch,
          Allowed |-> TRUE, RequestsMade |-> c.requestsMade,
          Limit |-> maxRequests, RetryAfter |-> ZeroTime,
          RetryAfterSec |-> 0, ErrorMessage |-> ""]

\* limiter.go 122-129 and 144-151: the logger gets a record for the call with
\* the locals c when the call is denied and rl.logOnExceedOnly is set.  Of the
\* record the message and the client_id are kept; it is appended when the
\* call returns.
Logged(c) ==
    IF c.denied /\ logOnExceedOnly
    THEN Append(logs, [msg |-> IF c.allowed THEN "Rate limit exceeded"
                                            ELSE "Client blocked",
                       client_id |-> c.clientID])
    ELSE logs

\* middleware 73 and 96: result := m.limiter.Allow(clientID), when it is the
\* handler of the middleware that made p's call
Returned(p, r) ==
    IF mw[p].pc = "allow"
    THEN [mw EXCEPT ![p].pc = "respond", ![p].result = r]
    ELSE mw

\* Allow after CheckAndIncrement returned a copy (lines 116 and 157 of the
\* store): nothing it reads is shared, so the rest of Allow is one step
AllowCopy(p) ==
    /\ pc[p] = "check"
    /\ ~call[p].alias
    /\ LET c == [Checked(p) EXCEPT !.requestsMade = call[p].data.RequestCount]
       IN  /\ results' = Append(results, ResultOf(c, call[p].data))
           /\ logs' = Logged(c)
           /\ mw' = Returned(p, ResultOf(c, call[p].data))
    /\ call' = [call EXCEPT ![p] = IdleCall]
    /\ pc' = [pc EXCEPT ![p] = "idle"]
    /\ UNCHANGED <<cfgVars, old, responses, opVars, rdVars, clock, clients, mu>>

\* Allow after CheckAndIncrement returned the stored pointer (lines 125, 134,
\* 143 of the store): each read of a field is a step of its own, the first
\* one being limiter.go 141
AllowCheck(p) ==
    /\ pc[p] = "check"
    /\ call[p].alias
    /\ call' = [call EXCEPT ![p] = Checked(p)]
    /\ pc' = [pc EXCEPT ![p] = "count"]
    /\ UNCHANGED <<cfgVars, old, logs, mwVars, opVars, rdVars, clock, clients, mu, results>>

\* limiter.go 155, 165: RequestsMade: data.RequestCount
AllowReadCount(p) ==
    /\ pc[p] = "count"
    /\ call' = [call EXCEPT ![p].requestsMade = Deref(p).RequestCount]
    /\ pc' = [pc EXCEPT ![p] = "ret"]
    /\ UNCHANGED <<cfgVars, old, logs, mwVars, opVars, rdVars, clock, clients, mu, results>>

\* limiter.go 157: RetryAfter: data.BlockedUntil, and the return
AllowReturn(p) ==
    /\ pc[p] = "ret"
    /\ results' = Append(results, ResultOf(call[p], Deref(p)))
    /\ logs' = Logged(call[p])
    /\ mw' = Returned(p, ResultOf(call[p], Deref(p)))
    /\ call' = [call EXCEPT ![p] = IdleCall]
    /\ pc' = [pc EXCEPT ![p] = "idle"]
    /\ UNCHANGED <<cfgVars, old, responses, opVars, rdVars, clock, clients, mu>>

Step(p, keys, budget) ==
    \/ \E k \in keys : AllowBegin(p, k, budget)
    \/ CheckAndIncrement(p)
    \/ CheckAndIncrementBlock(p)
    \/ AllowCopy(p)
    \/ AllowCheck(p)
    \/ AllowReadCount(p)
    \/ AllowReturn(p)

\* ---------------------------------------------------------- GetClientData
\* the ClientData that data of GetClientData points at
GetDeref == IF get.alias THEN clients[get.clientID] ELSE get.data

\* lines 26-32: RLock(), data, exists := s.clients[clientID], RUnlock(), and
\* the return of nil, false for a key that is not stored
GetClientData(k) ==
    /\ get.pc = "idle"
    /\ mu = 0
    /\ Len(snaps) < MaxGets
    /\ IF clients[k].exists
       THEN /\ get' = [IdleGet EXCEPT !.pc = "count", !.clientID = k,
                                      !.alias = TRUE, !.seen = {clients[k]}]
            /\ UNCHANGED snaps
       ELSE /\ snaps' = Append(snaps, [clientID |-> k, found |-> FALSE,
                                       data |-> NoData, seen |-> {}])
            /\ UNCHANGED get
    /\ UNCHANGED <<cfgVars, old, logs, mwVars, opVars, clock, clients, mu, call, pc, results>>

\* line 35: RequestCount: data.RequestCount, after RUnlock()
GetReadCount ==
    /\ get.pc = "count"
    /\ get' = [get EXCEPT !.pc = "window", !.RequestCount = GetDeref.RequestCount]
    /\ UNCHANGED <<cfgVars, old, logs, mwVars, opVars, snaps, clock, clients, mu, call, pc, results>>

\* line 36: WindowStart: data.WindowStart
GetReadWindowStart ==
    /\ get.pc = "window"
    /\ get' = [get EXCEPT !.pc = "blocked", !.WindowStart = GetDeref.WindowStart]
    /\ UNCHANGED <<cfgVars, old, logs, mwVars, opVars, snaps, clock, clients, mu, call, pc, results>>

\* lines 37-39: BlockedUntil: data.BlockedUntil, return dataCopy, true
GetReturn ==
    /\ get.pc = "blocked"
    /\ snaps' = Append(snaps,
                       [clientID |-> get.clientID, found |-> TRUE,
                        data |-> ClientData(get.RequestCount, get.WindowStart,
                                            GetDeref.BlockedUntil),
                        seen |-> get.seen])
    /\ get' = IdleGet
    /\ UNCHANGED <<cfgVars, old, logs, mwVars, opVars, clock, clients, mu, call, pc, results>>

GetStep(keys) ==
    \/ \E k \in keys : GetClientData(k)
    \/ GetReadCount
    \/ GetReadWindowStart
    \/ GetReturn

\* ------------------------------------------------- the other operations
\* s.clients is about to lose or replace every entry: whoever holds a pointer
\* to an object keeps the object as it is now
DetachAll(c) ==
    [q \in Procs |->
        IF c[q].alias
        THEN [c[q] EXCEPT !.alias = FALSE, !.data = clients[c[q].clientID]]
        ELSE c[q]]

DetachAllGet ==
    IF get.alias
    THEN [get EXCEPT !.alias = FALSE, !.data = clients[get.clientID]]
    ELSE get

\* the values a caller passes to SetClientData
SetArgs ==
    {ClientData(1, clock, ZeroTime), ClientData(maxRequests + 1, clock, clock + 1)}

\* lines 42-51 with the block of the old entry kept
SetClientDataKeepBlock(k, d) ==
    /\ mu = 0
    /\ clients' = [clients EXCEPT ![k] =
                      IF clients[k].exists
                      THEN ClientData(d.RequestCount, d.WindowStart,
                                      clients[k].BlockedUntil)
                      ELSE d]
    /\ call' = Detach(k, call)
    /\ get' = DetachGet(k)

\* lines 42-51: the entry becomes a new object holding a copy of the argument
SetClientData(k, d) ==
    /\ mu = 0
    /\ clients' = [clients EXCEPT ![k] = d]
    /\ call' = Detach(k, call)
    /\ get' = DetachGet(k)

\* the entry of lines 73-77 with the block of the old entry kept
ResetWindowKeepBlock(k, windowStart) ==
    /\ mu = 0
    /\ clients' = [clients EXCEPT ![k] =
                      ClientData(1, windowStart,
                                 IF @.exists THEN @.BlockedUntil ELSE ZeroTime)]
    /\ call' = Detach(k, call)
    /\ get' = DetachGet(k)

\* lines 70-79
ResetWindow(k, windowStart) ==
    /\ mu = 0
    /\ clients' = [clients EXCEPT ![k] = ClientData(1, windowStart, ZeroTime)]
    /\ call' = Detach(k, call)
    /\ get' = DetachGet(k)

\* lines 81-88 with an entry created for a key that has none
BlockClientCreate(k, blockedUntil) ==
    /\ mu = 0
    /\ LET d == IF clients[k].exists
                THEN [clients[k] EXCEPT !.BlockedUntil = blockedUntil]
                ELSE ClientData(0, ZeroTime, blockedUntil)
       IN  /\ clients' = [clients EXCEPT ![k] = d]
           /\ get' = Observed(k, d)
    /\ UNCHANGED call

\* lines 81-88: the stored object is written in place, if there is one
BlockClient(k, blockedUntil) ==
    /\ mu = 0
    /\ IF clients[k].exists
       THEN LET d == [clients[k] EXCEPT !.BlockedUntil = blockedUntil]
            IN  /\ clients' = [clients EXCEPT ![k] = d]
                /\ get' = Observed(k, d)
       ELSE UNCHANGED <<clients, get>>
    /\ UNCHANGED call

\* lines 97-102 run for a single key
DeleteClientAll(k) ==
    /\ mu = 0
    /\ clients' = [j \in Keys |-> NoData]
    /\ call' = DetachAll(call)
    /\ get' = DetachAllGet

\* lines 90-95: delete(s.clients, clientID)
DeleteClient(k) ==
    /\ mu = 0
    /\ clients' = [clients EXCEPT ![k] = NoData]
    /\ call' = Detach(k, call)
    /\ get' = DetachGet(k)

\* lines 97-102: s.clients = make(map[string]*ClientData)
Clear ==
    /\ mu = 0
    /\ clients' = [k \in Keys |-> NoData]
    /\ call' = DetachAll(call)
    /\ get' = DetachAllGet

IncInFlight == {p \in Procs : inc[p].pc # "idle"}

\* IncrementRequestCount entered without waiting for the lock
IncMayLockAlways == TRUE

\* line 54: s.mu.Lock() returns
IncMayLock == mu = 0

\* lines 54-58: Lock(), the lookup and the read of data.RequestCount that
\* the ++ of line 58 starts with; at most budget calls are made
IncrementRequestCount(p, k, budget) ==
    /\ inc[p].pc = "idle"
    /\ \A q \in Procs : q < p => inc[q].pc # "idle"
    /\ Len(rets) + Cardinality(IncInFlight) < budget
    /\ IncMayLock
    /\ mu' = p
    /\ inc' = [inc EXCEPT ![p] = [pc |-> "write", clientID |-> k,
                                  data |-> clients[k]]]
    /\ UNCHANGED <<cfgVars, old, logs, mwVars, nops, rets, rdVars, clock, clients,
                   call, pc, results>>

\* lines 58-59, or 62-67 for a key that was not found: the write of the
\* count, the return and the deferred Unlock()
IncrementWrite(p) ==
    /\ inc[p].pc = "write"
    /\ LET k == inc[p].clientID
           d == IF inc[p].data.exists
                THEN [clients[k] EXCEPT !.RequestCount = inc[p].data.RequestCount + 1]
                ELSE ClientData(1, clock, ZeroTime)
       IN  /\ clients' = [clients EXCEPT ![k] = d]
           /\ rets' = Append(rets, [clientID |-> k, count |-> d.RequestCount])
           /\ IF inc[p].data.exists
              THEN call' = call /\ get' = Observed(k, d)
              ELSE call' = Detach(k, call) /\ get' = DetachGet(k)
    /\ mu' = 0
    /\ inc' = [inc EXCEPT ![p] = IdleInc]
    /\ UNCHANGED <<cfgVars, old, logs, mwVars, nops, snaps, clock, pc, results>>

IncStep(p, keys, budget) ==
    \/ \E k \in keys : IncrementRequestCount(p, k, budget)
    \/ IncrementWrite(p)

\* one of the operations that hold Lock() from their first to their last
\* line, called by a goroutine of its own; at most budget such calls are made
StoreOp(keys, budget) ==
    /\ nops < budget
    /\ nops' = nops + 1
    /\ \/ \E k \in keys, d \in SetArgs : SetClientData(k, d)
       \/ \E k \in keys, w \in {clock - 1, clock} : ResetWindow(k, w)
       \/ \E k \in keys : BlockClient(k, clock + 1)
       \/ \E k \in keys : DeleteClient(k)
       \/ Clear
    /\ UNCHANGED <<cfgVars, old, logs, mwVars, inc, rets, snaps, clock, mu, pc,
                   results>>

\* ------------------------------------------------------------ middleware
DigitChar == <<"0", "1", "2", "3", "4", "5", "6", "7", "8", "9">>

RECURSIVE Digits(_)
Digits(n) ==
    IF n < 10 THEN <<DigitChar[n + 1]>>
    ELSE Digits(n \div 10) \o <<DigitChar[(n % 10) + 1]>>

\* fmt.Sprintf("%d", n), as the sequence of its characters
Sprintf(n) == IF n < 0 THEN <<"-">> \o Digits(-n) ELSE Digits(n)

MwInFlight == {p \in Procs : mw[p].pc # "idle"}

\* middleware 71-73 or 94-96 and limiter.go 112: the handler built by
\* Handler or HandlerFunc gets a request of client k and calls Allow; at most
\* budget requests are made
ServeHTTP(p, kind, k, budget) ==
    /\ mw[p].pc = "idle"
    /\ pc[p] = "idle"
    /\ \A q \in Procs : q < p => mw[q].pc # "idle"
    /\ Len(responses) + Cardinality(MwInFlight) < budget
    /\ mw' = [mw EXCEPT ![p] = [IdleMw EXCEPT !.pc = "allow", !.kind = kind]]
    /\ call' = [call EXCEPT ![p] = [IdleCall EXCEPT !.clientID = k, !.now = clock]]
    /\ pc' = [pc EXCEPT ![p] = "cai"]
    /\ UNCHANGED <<cfgVars, old, logs, responses, opVars, rdVars, clock, clients,
                   mu, results>>

\* a handler that passes every request on to next
ResponseOfPassThrough(kind, r) ==
    [kind |-> kind, result |-> r, status |-> StatusOK, retryAfter |-> << >>,
     contentType |-> "", body |-> FALSE, next |-> 1]

\* middleware 75-88 or 98-111: what the client gets for the Result r and how
\* often next was called; next answers with 200.  body tells whether
\* FormatJSON() was written.
ResponseOf(kind, r) ==
    IF ~r.Allowed
    THEN [kind |-> kind, result |-> r, status |-> StatusTooManyRequests,
          retryAfter |-> Sprintf(r.RetryAfterSec),
          contentType |-> IF includeJSON THEN "application/json" ELSE "",
          body |-> includeJSON, next |-> 0]
    ELSE [kind |-> kind, result |-> r, status |-> StatusOK,
          retryAfter |-> << >>, contentType |-> "", body |-> FALSE, next |-> 1]

\* the handler after Allow has returned, up to its own return
Respond(p) ==
    /\ mw[p].pc = "respond"
    /\ responses' = Append(responses, ResponseOf(mw[p].kind, mw[p].result))
    /\ mw' = [mw EXCEPT ![p] = IdleMw]
    /\ UNCHANGED <<cfgVars, old, logs, opVars, rdVars, clock, clients, mu, call, pc,
                   results>>

MwStep(p, keys, budget) ==
    \/ \E kind \in Kinds, k \in keys : ServeHTTP(p, kind, k, budget)
    \/ CheckAndIncrement(p)
    \/ CheckAndIncrementBlock(p)
    \/ AllowCopy(p)
    \/ AllowCheck(p)
    \/ AllowReadCount(p)
    \/ AllowReturn(p)
    \/ Respond(p)

\* ------------------------------------------- the get-then-increment Allow
\* part_001 599-619: the entry of the key after the call has counted itself,
\* for a call at now that found the copy d and d not blocked: ResetWindow
\* and SetClientData with {1, now, no block}, or IncrementRequestCount
OldCounted(d, now) ==
    IF ~d.exists THEN ClientData(1, now, ZeroTime)
    ELSE IF ~IsZero(d.BlockedUntil) /\ After(now, d.BlockedUntil)
    THEN ClientData(1, now, ZeroTime)
    ELSE IF now - d.WindowStart >= windowDuration
    THEN ClientData(1, now, ZeroTime)
    ELSE [d EXCEPT !.RequestCount = @ + 1]

\* part_001 574: the key is blocked at now
OldBlocked(d, now) ==
    d.exists /\ ~IsZero(d.BlockedUntil) /\ Before(now, d.BlockedUntil)

\* part_001 569-651: the entry the call leaves; 621-623 block the key when the
\* count has passed the limit
OldStored(d, now) ==
    IF OldBlocked(d, now) THEN d
    ELSE LET c == OldCounted(d, now)
         IN  IF c.RequestCount > maxRequests
             THEN [c EXCEPT !.BlockedUntil = now + blockDuration]
             ELSE c

\* part_001 589-596, 636-643, 646-650: the Result of the call
OldResult(k, d, now) ==
    IF OldBlocked(d, now)
    THEN [clientID |-> k, now |-> now, branch |-> "blocked", Allowed |-> FALSE,
          RequestsMade |-> d.RequestCount, Limit |-> maxRequests,
          RetryAfter |-> d.BlockedUntil,
          RetryAfterSec |-> RetryAfterBlocked(d.BlockedUntil),
          ErrorMessage |-> errorMessage]
    ELSE LET c == OldCounted(d, now)
         IN  IF c.RequestCount > maxRequests
             THEN [clientID |-> k, now |-> now, branch |-> "counted",
                   Allowed |-> FALSE, RequestsMade |-> c.RequestCount,
                   Limit |-> maxRequests, RetryAfter |-> now + blockDuration,
                   RetryAfterSec |-> Seconds(blockDuration),
                   ErrorMessage |-> errorMessage]
             ELSE [clientID |-> k, now |-> now, branch |-> "counted",
                   Allowed |-> TRUE, RequestsMade |-> c.RequestCount,
                   Limit |-> maxRequests, RetryAfter |-> ZeroTime,
                   RetryAfterSec |-> 0, ErrorMessage |-> ""]

\* the calls made so far have been made on both limiters
InStep == Len(old.results) = Len(results)

\* part_001 569-651, with no other call overlapping it: the call that the
\* other limiter has just answered is made on this one, at the same time
AllowGetThenIncrement ==
    /\ pc[1] = "idle"
    /\ ~InStep
    /\ LET r == results[Len(old.results) + 1]
           k == r.clientID
           d == old.clients[k]
       IN  old' = [clients |-> [old.clients EXCEPT ![k] = OldStored(d, r.now)],
                   results |-> Append(old.results, OldResult(k, d, r.now))]
    /\ UNCHANGED <<cfgVars, logs, mwVars, opVars, rdVars, clock, clients, mu,
                   call, pc, results>>

\* the goroutines call Allow concurrently, all for the same key
Next ==
    \/ Tick(MaxTime)
    \/ \E p \in Procs : Step(p, HotKeys, MaxCalls)

Spec == Init /\ [][Next]_vars

\* one goroutine calls Allow again and again, for any key
NextSeq ==
    \/ Tick(MaxSeqTime)
    \/ Step(1, Keys, MaxSeqCalls)

SpecSeq == Init /\ [][NextSeq]_vars

\* the goroutines call Allow concurrently, for any key, all within one tick
\* of the clock
NextKeys == \E p \in Procs : Step(p, Keys, MaxKeyCalls)

SpecKeys == Init /\ [][NextKeys]_vars

\* the goroutines call Allow for one key while another goroutine reads the
\* key with GetClientData
NextGet ==
    \/ Tick(MaxTime)
    \/ \E p \in Procs : Step(p, HotKeys, MaxGetCalls)
    \/ GetStep(HotKeys)

SpecGet == Init /\ [][NextGet]_vars

\* one goroutine calls Allow again and again on a limiter built with either
\* value of WithLogOnExceedOnly
InitLog == \E loe \in BOOLEAN : New(loe, TRUE)

SpecLog == InitLog /\ [][NextSeq]_vars

\* the goroutines call IncrementRequestCount for one key while another
\* goroutine reads the key with GetClientData
NextInc ==
    \/ \E p \in Procs : IncStep(p, HotKeys, MaxIncs)
    \/ GetStep(HotKeys)

SpecInc == Init /\ [][NextInc]_vars

\* one goroutine calls Allow, the operations of the store and GetClientData
\* one after the other, for any key, all within one tick of the clock
NextOps ==
    \/ get.pc = "idle" /\ Step(1, Keys, MaxOpCalls - nops - Len(snaps))
    \/ /\ pc[1] = "idle" /\ get.pc = "idle"
       /\ Len(results) + nops + Len(snaps) < MaxOpCalls
       /\ StoreOp(Keys, MaxOps)
    \/ /\ pc[1] = "idle"
       /\ get.pc = "idle" => Len(results) + nops + Len(snaps) < MaxOpCalls
       /\ GetStep(Keys)

SpecOps == Init /\ [][NextOps]_vars

\* one goroutine serves requests of any client through the middleware, built
\* with either value of WithIncludeJSON, all within one tick of the clock
InitMw == \E json \in BOOLEAN : New(TRUE, json)

NextMw == MwStep(1, Keys, MaxMwCalls)

SpecMw == InitMw /\ [][NextMw]_vars

\* the goroutines call Allow for one key while other goroutines call the
\* operations of the store and GetClientData for it, all within one tick of
\* the clock and of a window and a block of the greatest length
InitLive == Init /\ windowDuration = MaxWindow /\ blockDuration = MaxBlock

\* the calls of GetClientData and of the operations of the store made so far
OtherCalls == nops + Len(snaps) + (IF get.pc = "idle" THEN 0 ELSE 1)

\* at most MaxLiveCalls calls are made in all
NextLive ==
    \/ \E p \in Procs : Step(p, HotKeys, MaxLiveCalls - OtherCalls)
    \/ /\ Len(results) + Cardinality(InFlight) + OtherCalls < MaxLiveCalls
       /\ StoreOp(HotKeys, MaxLiveOps)
    \/ /\ get.pc = "idle" =>
             Len(results) + Cardinality(InFlight) + OtherCalls < MaxLiveCalls
       /\ GetStep(HotKeys)

\* a goroutine that is inside Allow keeps running, and one that waits in
\* Lock() gets the lock when it is free again and again (sync.Mutex hands
\* the lock to a waiter that has been starving)
Running(p) ==
    \/ CheckAndIncrementBlock(p)
    \/ AllowCopy(p)
    \/ AllowCheck(p)
    \/ AllowReadCount(p)
    \/ AllowReturn(p)

SpecLive ==
    /\ InitLive /\ [][NextLive]_vars
    /\ \A p \in Procs : WF_vars(Running(p)) /\ SF_vars(CheckAndIncrement(p))

\* one goroutine makes each of its Allow calls on two limiters with the same
\* options, the one with the compound CheckAndIncrement first
NextBoth ==
    \/ InStep /\ Tick(MaxSeqTime)
    \/ InStep /\ Step(1, Keys, MaxSeqCalls)
    \/ AllowGetThenIncrement

SpecBoth == Init /\ [][NextBoth]_vars

\* ======================================================== properties
ResetBranches == {"blockExpired", "windowElapsed"}

\* the Results returned for key k, in order of return
ResultsFor(k) == SelectSeq(results, LAMBDA r : r.clientID = k)

AllReturned == \A p \in Procs : pc[p] = "idle"

\* no call for k, returned or still running, has started a new window
NoReset(k) ==
    /\ \A i \in DOMAIN results :
          results[i].clientID = k => results[i].branch \notin ResetBranches
    /\ \A p \in Procs :
          (pc[p] # "idle" /\ call[p].clientID = k) => call[p].branch \notin ResetBranches

NumCalls(k) == Len(ResultsFor(k))
NumAllowed(k) == Len(SelectSeq(results, LAMBDA r : r.clientID = k /\ r.Allowed))
NumDenied(k) == Len(SelectSeq(results, LAMBDA r : r.clientID = k /\ ~r.Allowed))
NumBlocked(k) == Len(SelectSeq(results, LAMBDA r : r.clientID = k /\ r.branch = "blocked"))

\* C1: of the Allow calls made on one fresh key inside one window, with
\* maxRequests = K >= 1 and under every interleaving, at most K are allowed,
\* and once all M have returned at least M-K of them are denied
C1_AtMostKAllowed ==
    \A k \in Keys :
        (maxRequests >= 1 /\ NoReset(k)) =>
            /\ NumAllowed(k) <= maxRequests
            /\ AllReturned => NumDenied(k) >= NumCalls(k) - maxRequests

\* three calls on one key have returned, more than the limit; the call that
\* created the state returned after a call that found it, so they overlapped
C1_Witness ==
    /\ AllReturned /\ NoReset("a") /\ maxRequests = 2
    /\ NumCalls("a") = 3 /\ NumAllowed("a") = 2 /\ NumDenied("a") = 1
    /\ results[1].branch = "increment" /\ results[2].branch = "fresh"

\* C2: M > K parallel calls on one fresh key inside one window yield exactly K
\* allowed and exactly M-K denied decisions
C2_ExactlyKAllowed ==
    \A k \in Keys :
        (AllReturned /\ NoReset(k) /\ NumCalls(k) > maxRequests) =>
            /\ NumAllowed(k) = maxRequests
            /\ NumDenied(k) = NumCalls(k) - maxRequests

\* C3 as stated: after M > K parallel calls on one fresh key inside one window
\* the stored request count equals M
C3_StoredCountIsM ==
    \A k \in Keys :
        (AllReturned /\ NoReset(k) /\ NumCalls(k) > maxRequests) =>
            clients[k].RequestCount = NumCalls(k)

\* C3 amended: after M > K parallel calls on one fresh key inside one window
\* the stored request count is M minus the number of calls that found the key
\* blocked, and it is at least K+1
C3_StoredCount ==
    \A k \in Keys :
        (AllReturned /\ NoReset(k) /\ NumCalls(k) > maxRequests) =>
            /\ clients[k].RequestCount = NumCalls(k) - NumBlocked(k)
            /\ clients[k].RequestCount >= maxRequests + 1

\* three calls with limit 1 have returned and the third found the key blocked
C3_Witness ==
    /\ AllReturned /\ NoReset("a") /\ maxRequests = 1 /\ NumCalls("a") = 3
    /\ NumBlocked("a") = 1 /\ clients["a"].RequestCount = 2

\* C4: with maxRequests >= 1 the call that creates a key's state returns
\* Allowed = true and RequestsMade = 1, whatever runs concurrently with it
C4_FirstRequestAllowed ==
    \A i \in DOMAIN results :
        (maxRequests >= 1 /\ results[i].branch = "fresh") =>
            results[i].Allowed /\ results[i].RequestsMade = 1

\* the Results for k up to and including the i-th were all produced without
\* starting a new window
OneWindow(rs, i) == \A j \in 1..i : rs[j].branch \notin ResetBranches

\* C5: of N <= maxRequests sequential calls for one key, starting from no
\* stored state and inside one window, the i-th is allowed and reports
\* RequestsMade = i
C5_WithinLimit ==
    \A k \in Keys :
        LET rs == ResultsFor(k)
        IN  \A i \in DOMAIN rs :
                (i <= maxRequests /\ OneWindow(rs, i)) =>
                    rs[i].Allowed /\ rs[i].RequestsMade = i

\* two calls with limit 2 have returned, reporting 1 and 2
C5_Witness ==
    LET rs == ResultsFor("a")
    IN  /\ maxRequests = 2 /\ Len(rs) >= 2 /\ OneWindow(rs, 2)
        /\ rs[1].RequestsMade = 1 /\ rs[2].RequestsMade = 2 /\ rs[2].Allowed

\* C6: for every maxRequests >= 0, the (maxRequests+1)-th sequential call for
\* a fresh key inside one window is denied and reports
\* RequestsMade = maxRequests+1 and the configured error message
C6_ExceedLimit ==
    \A k \in Keys :
        LET rs == ResultsFor(k)
            n == maxRequests + 1
        IN  (Len(rs) >= n /\ OneWindow(rs, n)) =>
                /\ ~rs[n].Allowed
                /\ rs[n].RequestsMade = n
                /\ rs[n].ErrorMessage = errorMessage

\* with limit 2 the third call has returned denied
C6_Witness ==
    LET rs == ResultsFor("a")
    IN  /\ maxRequests = 2 /\ Len(rs) >= 3 /\ OneWindow(rs, 3)
        /\ ~rs[3].Allowed /\ rs[3].RequestsMade = 3

\* C7: every denied Result has RetryAfterSec >= 1, for every blockDuration >= 0
\* and for both kinds of denial
C7_RetryAfterAtLeastOne ==
    \A i \in DOMAIN results : ~results[i].Allowed => results[i].RetryAfterSec >= 1

\* the key of p's call is blocked at the time p read from the clock
BlockedAt(p) ==
    LET d == clients[call[p].clientID]
    IN  d.exists /\ d.BlockedUntil # ZeroTime /\ call[p].now < d.BlockedUntil

\* p executes CheckAndIncrement up to its return
CaiReturns(p) == pc[p] = "cai" /\ pc'[p] = "check"

\* p returns from Allow
Returns(p) == pc[p] # "idle" /\ pc'[p] = "idle"

LastResult == results'[Len(results')]

\* C8: a call made while the key is blocked leaves the stored state as it is
\* and is denied, and its Result reports the stored count and the stored
\* blockedUntil
C8_BlockedFrame ==
    [][\A p \in Procs :
        /\ (pc[p] = "cai" /\ pc'[p] # "cai" /\ BlockedAt(p)) =>
              /\ clients' = clients
              /\ CaiReturns(p)
              /\ ~call'[p].allowed
              /\ call'[p].data = clients[call[p].clientID]
        /\ (Returns(p) /\ call[p].branch = "blocked") =>
              /\ ~LastResult.Allowed
              /\ LastResult.RequestsMade = call[p].data.RequestCount
              /\ LastResult.RetryAfter = call[p].data.BlockedUntil
      ]_vars

\* a call that found the key blocked has returned
C8_Witness ==
    \E i \in DOMAIN results :
        /\ results[i].branch = "blocked" /\ ~results[i].Allowed
        /\ results[i].RequestsMade = maxRequests + 1
        /\ results[i].RetryAfter = clients[results[i].clientID].BlockedUntil

\* C9: a call made while the key is blocked and after its window has elapsed
\* is denied and the window is not reset
C9_BlockBeforeWindow ==
    [][\A p \in Procs :
        LET d == clients[call[p].clientID]
        IN  /\ (pc[p] = "cai" /\ pc'[p] # "cai" /\ BlockedAt(p)
                  /\ call[p].now - d.WindowStart >= windowDuration) =>
                  /\ clients'[call[p].clientID] = d
                  /\ call'[p].branch = "blocked"
                  /\ ~call'[p].allowed
            /\ (Returns(p) /\ ~call[p].allowed
                  /\ call[p].now - call[p].data.WindowStart >= windowDuration) =>
                  ~LastResult.Allowed
      ]_vars

\* a call made during the block and after the end of the window has returned
\* denied, and the window is the old one
C9_Witness ==
    \E i \in DOMAIN results :
        LET r == results[i]
            d == clients[r.clientID]
        IN  /\ r.branch = "blocked" /\ ~r.Allowed
            /\ r.now < d.BlockedUntil
            /\ r.now - d.WindowStart >= windowDuration

\* C10: with maxRequests >= 1, the first call made strictly after the
\* blockedUntil of a blocked key stores count 1, windowStart = its now and no
\* block, is allowed and reports RequestsMade = 1
C10_AfterBlock ==
    [][\A p \in Procs :
        LET k == call[p].clientID
            d == clients[k]
        IN  /\ (maxRequests >= 1 /\ pc[p] = "cai" /\ pc'[p] # "cai" /\ d.exists
                  /\ d.BlockedUntil # ZeroTime /\ call[p].now > d.BlockedUntil) =>
                  /\ clients'[k] = ClientData(1, call[p].now, ZeroTime)
                  /\ call'[p].branch = "blockExpired"
            /\ (maxRequests >= 1 /\ Returns(p) /\ call[p].branch = "blockExpired") =>
                  /\ LastResult.Allowed
                  /\ LastResult.RequestsMade = 1
                  /\ clients'[k] = ClientData(1, call[p].now, ZeroTime)
      ]_vars

\* a call made after the end of a block has returned allowed
C10_Witness ==
    \E i \in DOMAIN results :
        /\ maxRequests >= 1
        /\ results[i].branch = "blockExpired" /\ results[i].Allowed
        /\ results[i].RequestsMade = 1
        /\ clients[results[i].clientID] = ClientData(1, results[i].now, ZeroTime)

\* p executes CheckAndIncrement, at least up to line 146
CaiStep(p) == pc[p] = "cai" /\ pc'[p] # "cai"

\* C11: with maxRequests >= 1, a call whose now equals the stored blockedUntil
\* finds the block expired: it stores count 1, windowStart = now and no block,
\* and CheckAndIncrement returns without blocking the key again
C11_ExpiredAtBoundary ==
    [][\A p \in Procs :
        LET k == call[p].clientID
            d == clients[k]
        IN  (maxRequests >= 1 /\ CaiStep(p) /\ d.exists
               /\ d.BlockedUntil # ZeroTime /\ call[p].now = d.BlockedUntil) =>
               /\ clients'[k] = ClientData(1, call[p].now, ZeroTime)
               /\ pc'[p] = "check"
      ]_vars

\* C12: with maxRequests >= 1, a call for a key that is stored without a block
\* starts a new window when now - windowStart >= windowDuration, and is then
\* allowed with RequestsMade = 1 whatever the count was; when
\* now - windowStart < windowDuration it counts in the window that is there
C12_WindowReset ==
    [][\A p \in Procs :
        LET k == call[p].clientID
            d == clients[k]
        IN  /\ (maxRequests >= 1 /\ CaiStep(p) /\ d.exists /\ d.BlockedUntil = ZeroTime
                  /\ call[p].now - d.WindowStart >= windowDuration) =>
                  /\ clients'[k] = ClientData(1, call[p].now, ZeroTime)
                  /\ call'[p].branch = "windowElapsed"
            /\ (CaiStep(p) /\ d.exists /\ d.BlockedUntil = ZeroTime
                  /\ call[p].now - d.WindowStart < windowDuration) =>
                  /\ clients'[k].WindowStart = d.WindowStart
                  /\ clients'[k].RequestCount = d.RequestCount + 1
            /\ (maxRequests >= 1 /\ Returns(p) /\ call[p].branch = "windowElapsed") =>
                  /\ LastResult.Allowed
                  /\ LastResult.RequestsMade = 1
      ]_vars

\* two calls were counted in a window and a third, made exactly windowDuration
\* after the first, has returned allowed with RequestsMade = 1
C12_Witness ==
    LET rs == ResultsFor("a")
    IN  /\ maxRequests >= 1 /\ Len(rs) >= 3
        /\ rs[1].branch = "fresh" /\ rs[2].RequestsMade = 2
        /\ rs[3].branch = "windowElapsed" /\ rs[3].now = rs[1].now + windowDuration
        /\ rs[3].Allowed /\ rs[3].RequestsMade = 1
        /\ clients["a"] = ClientData(1, rs[3].now, ZeroTime)

\* the calls for k that have gone through CheckAndIncrement's line 146 or
\* through one of its returns
NumCounted(k) ==
    NumCalls(k)
    + Cardinality({p \in Procs : pc[p] \in {"block", "check", "count", "ret"}
                                  /\ call[p].clientID = k})

\* C13: client keys are independent under any interleaving: the stored state
\* of a key changes only in a step of a call made for that key, and a call is
\* denied only when more than maxRequests calls for its own key have been
\* counted, whatever has happened to the other keys
C13_KeysIndependent ==
    /\ [][\A k \in Keys :
            clients'[k] # clients[k] =>
                \E p \in Procs : /\ pc[p] \in {"cai", "block"}
                                 /\ pc'[p] # pc[p]
                                 /\ call[p].clientID = k
         ]_vars
    /\ [](\A i \in DOMAIN results :
            ~results[i].Allowed => NumCounted(results[i].clientID) > maxRequests)

\* key a has been denied and a call for key b that returned later was allowed
\* with RequestsMade = 1
C13_Witness ==
    /\ maxRequests >= 1
    /\ \E i, j \in DOMAIN results :
          /\ i < j
          /\ results[i].clientID = "a" /\ ~results[i].Allowed
          /\ clients["a"].BlockedUntil # ZeroTime
          /\ results[j].clientID = "b" /\ results[j].Allowed
          /\ results[j].RequestsMade = 1

\* C14: N <= maxRequests concurrent calls on one fresh key inside one window
\* report the RequestsMade values 1, 2, ..., N, each of them once
C14_EachPositionOnce ==
    \A k \in Keys :
        LET rs == ResultsFor(k)
        IN  (AllReturned /\ NoReset(k) /\ Len(rs) <= maxRequests) =>
                \A n \in 1..Len(rs) :
                    Cardinality({i \in DOMAIN rs : rs[i].RequestsMade = n}) = 1

\* C15: with maxRequests = 0 every call is denied, and the call that creates a
\* key's state reports RequestsMade = 1
C15_ZeroLimitDeniesAll ==
    maxRequests = 0 =>
        \A i \in DOMAIN results :
            /\ ~results[i].Allowed
            /\ results[i].branch = "fresh" => results[i].RequestsMade = 1

\* with maxRequests = 0 a first call, a call made during a block and a call
\* made after the end of the block have all returned denied
C15_Witness ==
    /\ maxRequests = 0
    /\ \E i, j, l \in DOMAIN results :
          /\ results[i].branch = "fresh" /\ ~results[i].Allowed
          /\ results[i].RequestsMade = 1
          /\ results[j].branch = "blocked" /\ ~results[j].Allowed
          /\ results[l].branch \in ResetBranches /\ ~results[l].Allowed

\* p returns from CheckAndIncrement, from any of its branches
CaiDone(p) == pc[p] \in {"cai", "block"} /\ pc'[p] = "check"

\* the stored blockedUntil of a request that took the count above maxRequests
\* is that request's now
BlockedAtNow ==
    \A p \in Procs :
        LET k == call[p].clientID
        IN  (CaiDone(p) /\ call'[p].branch # "blocked"
               /\ clients'[k].RequestCount > maxRequests) =>
               clients'[k].BlockedUntil = call[p].now

\* the Result of a request that took the count above maxRequests is a denial,
\* and the next call for the key, if made at a later time, found the block
\* expired and was allowed with RequestsMade = 1
OneShotDeny ==
    \A k \in Keys :
        LET rs == ResultsFor(k)
        IN  \A i \in DOMAIN rs :
                (rs[i].branch # "blocked" /\ rs[i].RequestsMade > maxRequests) =>
                    /\ ~rs[i].Allowed
                    /\ (i < Len(rs) /\ rs[i + 1].now > rs[i].now) =>
                          /\ rs[i + 1].branch = "blockExpired"
                          /\ rs[i + 1].Allowed
                          /\ rs[i + 1].RequestsMade = 1

\* C16 as stated: with blockDuration = 0 the request that takes the count
\* above maxRequests is denied, its stored blockedUntil is its now, and the
\* next call at a strictly later now is block-expired, reset to 1 and allowed
C16_ZeroBlockAnyLimit ==
    /\ [][blockDuration = 0 => BlockedAtNow]_vars
    /\ [](blockDuration = 0 => OneShotDeny)

\* C16 amended: the same with maxRequests >= 1
C16_ZeroBlock ==
    /\ [][(blockDuration = 0 /\ maxRequests >= 1) => BlockedAtNow]_vars
    /\ []((blockDuration = 0 /\ maxRequests >= 1) => OneShotDeny)

\* with blockDuration = 0 a call was denied and the next one, made later,
\* was allowed with RequestsMade = 1
C16_Witness ==
    LET rs == ResultsFor("a")
    IN  /\ blockDuration = 0 /\ maxRequests >= 1
        /\ \E i \in DOMAIN rs :
              /\ i < Len(rs)
              /\ rs[i].branch = "increment" /\ ~rs[i].Allowed
              /\ rs[i + 1].now > rs[i].now
              /\ rs[i + 1].branch = "blockExpired" /\ rs[i + 1].Allowed
              /\ rs[i + 1].RequestsMade = 1

\* C17: for every maxRequests >= 0 a denied Result carries a non-zero
\* RetryAfter, equal to the blockedUntil stored for the key after the call,
\* which for the request that trips the limit is its now + blockDuration
C17_RetryAfterIsBlockedUntil ==
    [][\A p \in Procs :
        (Returns(p) /\ ~LastResult.Allowed) =>
            /\ LastResult.RetryAfter # ZeroTime
            /\ LastResult.RetryAfter = clients'[call[p].clientID].BlockedUntil
            /\ call[p].branch = "increment" =>
                  LastResult.RetryAfter = call[p].now + blockDuration
      ]_vars

\* the allowed calls for the key of rs whose now lies in [t, t + windowDuration)
AllowedInWindow(rs, t) ==
    {j \in DOMAIN rs : rs[j].Allowed /\ t <= rs[j].now /\ rs[j].now < t + windowDuration}

\* C18: for every key and every time t at which a window of the key starts,
\* at most maxRequests calls with now in [t, t + windowDuration) are allowed,
\* for every blockDuration
C18_MaxPerWindow ==
    \A k \in Keys :
        LET rs == ResultsFor(k)
        IN  \A i \in DOMAIN rs :
                rs[i].branch \in {"fresh", "blockExpired", "windowElapsed"} =>
                    Cardinality(AllowedInWindow(rs, rs[i].now)) <= maxRequests

\* C19: with maxRequests >= 1, when a call at time t is denied with
\* RetryAfterSec = s, the next call for the key, made at t + s seconds, is
\* allowed
C19_RetryDelaySuffices ==
    \A k \in Keys :
        LET rs == ResultsFor(k)
        IN  \A i \in DOMAIN rs :
                (maxRequests >= 1 /\ i < Len(rs) /\ ~rs[i].Allowed
                   /\ rs[i + 1].now = rs[i].now + rs[i].RetryAfterSec * TicksPerSecond) =>
                    rs[i + 1].Allowed

\* C20: every snapshot GetClientData returns for a stored key equals a value
\* the key's object held before or after a whole CheckAndIncrement, never a
\* mix of fields from around one.
C20_NoPartialRead ==
    \A i \in DOMAIN snaps :
        snaps[i].found => snaps[i].data \in snaps[i].seen

\* p is in Allow and CheckAndIncrement has returned to it
HasData(p) == pc[p] \in {"check", "count", "ret"}

\* C21: the value CheckAndIncrement has returned to a caller is a copy: no
\* later store operation on the key changes it.
C21_ReturnedNeverChanges ==
    [][\A p \in Procs :
        (HasData(p) /\ pc'[p] # "idle") => Deref(p)' = Deref(p)
      ]_vars

\* C27: the allowed flag that CheckAndIncrement returned to a call equals the
\* Allowed field of the Result the call returns.
C27_FlagIsDecision ==
    [][\A p \in Procs :
        Returns(p) => LastResult.Allowed = call[p].allowed
      ]_vars

\* C29: with maxRequests >= 1 the stored request count of every existing key
\* is at least 1 and at most maxRequests + 1.
C29_CountBounded ==
    \A k \in Keys :
        (maxRequests >= 1 /\ clients[k].exists) =>
            /\ clients[k].RequestCount >= 1
            /\ clients[k].RequestCount <= maxRequests + 1

\* C28: a CheckAndIncrement that starts a new window, because the block has
\* expired, because the window has elapsed or both, leaves the key with
\* requestCount = 1, windowStart = the now of the call and no block, returns
\* that state to the call and reports it as allowed by the store.
C28_ResetOutcome ==
    [][\A p \in Procs :
        LET k == call[p].clientID
            d == clients[k]
            now == call[p].now
        IN  /\ (CaiStep(p) /\ call'[p].branch \in ResetBranches) =>
                  /\ clients'[k] = ClientData(1, now, ZeroTime)
                  /\ Deref(p)' = ClientData(1, now, ZeroTime)
                  /\ call'[p].allowed
            /\ (CaiStep(p) /\ d.exists /\ ~IsBlocked(d, now)
                  /\ (\/ (After(now, d.BlockedUntil) /\ ~IsZero(d.BlockedUntil))
                      \/ now - d.WindowStart >= windowDuration)) =>
                  call'[p].branch \in ResetBranches
      ]_vars

\* a call has just reset a key whose block had expired and whose window, begun
\* by the first call, had elapsed as well
C28_Witness ==
    \E p \in Procs :
        /\ pc[p] = "check" /\ call[p].branch = "blockExpired"
        /\ clients[call[p].clientID] = ClientData(1, call[p].now, ZeroTime)
        /\ Len(results) >= 2
        /\ results[1].branch = "fresh" /\ results[1].clientID = call[p].clientID
        /\ call[p].now - results[1].now >= windowDuration
        /\ \E i \in DOMAIN results :
              ~results[i].Allowed /\ results[i].RetryAfter < call[p].now
                /\ results[i].RetryAfter # ZeroTime

\* C25: with logOnExceedOnly set, an Allow call hands a record to the logger
\* exactly when its Result is denied; with logOnExceedOnly cleared, every
\* Allow call hands a record to the logger.
C25_LogSelection ==
    [][\A p \in Procs :
        Returns(p) =>
            (Len(logs') = Len(logs) + 1 <=> (~logOnExceedOnly \/ ~LastResult.Allowed))
      ]_vars

\* what IncrementRequestCount has returned for key k
RetsFor(k) == SelectSeq(rets, LAMBDA r : r.clientID = k)

\* C22: the IncrementRequestCount calls made concurrently on a fresh key,
\* with GetClientData calls in between, return the values 1..N, each once,
\* and the stored count is the number of calls that have returned.
C22_IncrementAtomic ==
    \A k \in Keys :
        LET rs == RetsFor(k)
        IN  /\ \A i \in DOMAIN rs : rs[i].count = i
            /\ Len(rs) > 0 => clients[k].RequestCount = Len(rs)
            /\ Len(rs) = 0 => ~clients[k].exists

\* three calls have returned, the second of them while GetClientData was
\* copying the fields
C22_Witness ==
    /\ Len(RetsFor("a")) = 3 /\ clients["a"].RequestCount = 3
    /\ IncInFlight = {}
    /\ Len(snaps) = 1 /\ snaps[1].found /\ snaps[1].data.RequestCount = 2
    /\ Cardinality(snaps[1].seen) >= 2

NotFound(k) == [clientID |-> k, found |-> FALSE, data |-> NoData, seen |-> {}]

\* C26: DeleteClient(k) leaves k without an entry and every other key as it
\* was, and changes nothing when k has no entry; Clear leaves no key with an
\* entry; GetClientData of a key without an entry reports not found; and an
\* Allow call for a key without an entry is treated as the first one:
\* allowed with RequestsMade = 1 when maxRequests >= 1.
C26_DeleteFrame ==
    /\ [][/\ \A k \in Keys :
               DeleteClient(k) =>
                   /\ ~clients'[k].exists
                   /\ \A j \in Keys \ {k} : clients'[j] = clients[j]
                   /\ (~clients[k].exists => clients' = clients)
          /\ Clear => \A k \in Keys : ~clients'[k].exists
          /\ \A k \in Keys :
               (GetClientData(k) /\ ~clients[k].exists) =>
                   snaps' = Append(snaps, NotFound(k))
          /\ \A p \in Procs :
               (CaiStep(p) /\ ~clients[call[p].clientID].exists) =>
                   call'[p].branch = "fresh"
         ]_vars
    /\ [](\A i \in DOMAIN results :
            (results[i].branch = "fresh" /\ maxRequests >= 1) =>
                results[i].Allowed /\ results[i].RequestsMade = 1)

\* key a was denied and blocked into the future, then lost its entry, and the
\* next call for it, at a time still inside the block, was allowed as the
\* first one; key b has kept its entry
C26_Witness ==
    /\ clients["b"].exists
    /\ nops >= 1
    /\ \E i, j \in DOMAIN results :
          /\ i < j
          /\ results[i].clientID = "a" /\ results[j].clientID = "a"
          /\ ~results[i].Allowed /\ results[i].RetryAfter > results[j].now
          /\ results[j].branch = "fresh"
          /\ results[j].Allowed /\ results[j].RequestsMade = 1

\* C30: ResetWindow(k, w) leaves k with requestCount = 1, windowStart = w and
\* no block, whatever k's entry was, and leaves every other key as it was.
C30_ResetWindow ==
    [][\A k \in Keys, w \in 0..MaxTime :
        ResetWindow(k, w) =>
            clients' = [clients EXCEPT ![k] = ClientData(1, w, ZeroTime)]
      ]_vars

\* key a was denied and blocked into the future and now starts a window at a
\* time that only ResetWindow can have stored; key b has an entry
C30_Witness ==
    /\ clients["a"] = ClientData(1, clock - 1, ZeroTime)
    /\ clients["b"].exists
    /\ Len(results) >= 1
    /\ LET r == results[Len(results)]
       IN  r.clientID = "a" /\ ~r.Allowed /\ r.RetryAfter > clock

\* the characters of a decimal numeral without sign, read as a number
RECURSIVE Atoi(_)
Atoi(cs) ==
    IF cs = << >> THEN 0
    ELSE LET c == cs[Len(cs)]
             d == CHOOSE n \in 0..9 : DigitChar[n + 1] = c
         IN  10 * Atoi(SubSeq(cs, 1, Len(cs) - 1)) + d

\* C24: for every request served through Handler or HandlerFunc the response
\* is built from a Result that Allow returned; next is called exactly once
\* when that Result is allowed; when it is denied next is not called, the
\* status is 429 and the Retry-After header is the decimal numeral of the
\* Result's RetryAfterSec; and a request of a client whose state would allow
\* it is passed on whatever was answered to other clients before.
C24_Middleware ==
    \A i \in DOMAIN responses :
        LET x == responses[i]
            r == x.result
        IN  /\ \E j \in DOMAIN results : results[j] = r
            /\ r.Allowed => x.next = 1 /\ x.status # StatusTooManyRequests
                                     /\ x.retryAfter = << >>
            /\ ~r.Allowed => /\ x.next = 0
                             /\ x.status = StatusTooManyRequests
                             /\ x.retryAfter # << >>
                             /\ Atoi(x.retryAfter) = r.RetryAfterSec
            /\ (maxRequests >= 1 /\ r.branch = "fresh") => x.next = 1

\* client a got 429 with Retry-After 1 from one kind of handler and then the
\* first request of client b was passed on by the other kind
C24_Witness ==
    \E i, j \in DOMAIN responses :
        /\ i < j
        /\ responses[i].result.clientID = "a" /\ responses[i].status = 429
        /\ responses[i].next = 0 /\ responses[i].retryAfter = <<"1">>
        /\ responses[j].result.clientID = "b" /\ responses[j].next = 1
        /\ responses[j].result.branch = "fresh"
        /\ responses[i].kind # responses[j].kind

\* C23: under fair scheduling every Allow call that has begun returns, with
\* a Result that is allowed or denied, whatever other Allow calls, store
\* operations and GetClientData calls run at the same time.
C23_AllowCompletes ==
    /\ \A p \in Procs : (pc[p] # "idle") ~> (pc[p] = "idle")
    /\ [](\A i \in DOMAIN results : results[i].Allowed \in BOOLEAN)

\* a call waits for the lock that another call holds between its two writes,
\* after an operation of the store has run
C23_Witness ==
    \E p \in Procs :
        /\ pc[p] = "cai" /\ mu \notin {0, p}
        /\ nops >= 1

\* C31: BlockClient(k, t) on a key with an entry changes blockedUntil to t and
\* leaves its requestCount and windowStart and every other key as they were;
\* on a key without an entry it changes nothing and creates no entry.
C31_BlockClient ==
    [][\A k \in Keys, t \in 0..(MaxTime + 1) :
        BlockClient(k, t) =>
            /\ clients[k].exists =>
                  clients' = [clients EXCEPT ![k] =
                                 ClientData(@.RequestCount, @.WindowStart, t)]
            /\ ~clients[k].exists => clients' = clients
      ]_vars

\* the first call for key a was allowed and counted, and the key now carries
\* a block that its count cannot have caused; key b has no entry after two
\* operations of the store
C31_Witness ==
    /\ maxRequests >= 1
    /\ clients["a"] = ClientData(1, clock, clock + 1)
    /\ ~clients["b"].exists
    /\ nops = 2
    /\ Len(results) = 1 /\ results[1].clientID = "a" /\ results[1].Allowed

\* C32: SetClientData(k, d) replaces the entry of k by d, whatever it was,
\* and leaves the other keys alone; a GetClientData(k) that no other
\* operation overlaps returns found with the three fields of the entry of k,
\* so with those of d right after SetClientData(k, d); for a key without an
\* entry it returns not found and creates no entry.
C32_SetGetRoundTrip ==
    [][/\ \A k \in Keys, d \in SetArgs :
             SetClientData(k, d) => clients' = [clients EXCEPT ![k] = d]
       /\ \A k \in Keys :
             GetClientData(k) =>
                 /\ clients' = clients
                 /\ ~clients[k].exists => snaps' = Append(snaps, NotFound(k))
                 /\ clients[k].exists => snaps' = snaps /\ get'.clientID = k
       /\ GetReturn =>
             LET x == snaps'[Len(snaps')]
             IN  /\ x.found /\ x.clientID = get.clientID
                 /\ x.data = clients[get.clientID]
                 /\ clients' = clients
      ]_vars

\* key a had the state the first Allow call left and GetClientData has
\* returned for it the blocked state that only SetClientData can have stored
C32_Witness ==
    /\ maxRequests >= 1
    /\ Len(results) = 1 /\ results[1].clientID = "a"
    /\ nops = 1
    /\ Len(snaps) = 1 /\ snaps[1].found /\ snaps[1].clientID = "a"
    /\ snaps[1].data = ClientData(maxRequests + 1, clock, clock + 1)
    /\ clients["a"] = snaps[1].data

\* C33: with maxRequests >= 1, after any number of Allow calls, whole or
\* still running but none of them between the two writes of its critical
\* section, a key's blockedUntil is set exactly when its stored requestCount
\* is greater than maxRequests.
C33_BlockedIffOverLimit ==
    (maxRequests >= 1 /\ mu = 0) =>
        \A k \in Keys :
            clients[k].exists =>
                (~IsZero(clients[k].BlockedUntil)
                    <=> clients[k].RequestCount > maxRequests)

\* key a is over the limit and blocked, a call for it has been denied, and
\* every call has returned
C33_Witness ==
    /\ maxRequests >= 1 /\ mu = 0 /\ AllReturned
    /\ clients["a"].exists
    /\ clients["a"].RequestCount > maxRequests
    /\ ~IsZero(clients["a"].BlockedUntil)
    /\ NumDenied("a") >= 1

\* C34: every Result with Allowed = true has RequestsMade <= Limit and a zero
\* RetryAfter, every Result with Allowed = false has RequestsMade > Limit,
\* and Limit is maxRequests.
C34_ResultsConsistent ==
    \A i \in DOMAIN results :
        LET r == results[i]
        IN  /\ r.Limit = maxRequests
            /\ r.Allowed => r.RequestsMade <= r.Limit /\ IsZero(r.RetryAfter)
            /\ ~r.Allowed => r.RequestsMade > r.Limit

\* C35: for calls that do not overlap, made at non-decreasing times and with
\* any maxRequests >= 0, the Allow built on CheckAndIncrement and the
\* get-then-increment Allow return the same Allowed, RequestsMade and
\* RetryAfter for each call and leave the same stored state after each call.
C35_SameAsGetThenIncrement ==
    /\ \A i \in DOMAIN old.results :
          /\ old.results[i].Allowed = results[i].Allowed
          /\ old.results[i].RequestsMade = results[i].RequestsMade
          /\ old.results[i].RetryAfter = results[i].RetryAfter
    /\ (InStep /\ pc[1] = "idle") => old.clients = clients

====
